---- MODULE Spec2Model ----
(***************************************************************************)
(* Room synchronisation of the two-player quiz (sunayraval/sat1v1).        *)
(*                                                                         *)
(* The model follows client/src/hooks/useGameRoom.ts (the hook: one room   *)
(* document rooms/{code} in the realtime store and the operations on it)   *)
(* and client/src/pages/Home.tsx (the page: the four-phase flow, the       *)
(* effects that react to room snapshots, the handlers).                    *)
(*                                                                         *)
(* Store semantics: a node exists iff it has a non-null child; an empty    *)
(* list or map is null.  set() replaces a node, update() replaces the      *)
(* named children, a null value deletes a child, remove() deletes the      *)
(* node.  A write is applied when it is issued; a get() followed by a      *)
(* write is two steps; a snapshot reaches a subscriber in a later step     *)
(* and carries the document as it is then (intermediate states may be      *)
(* skipped).                                                               *)
(***************************************************************************)
EXTENDS Integers, Sequences, FiniteSets, TLC

VARIABLES
  room,          \* the document rooms/{RoomCode} in the store
  gameState,     \* Home: gameState of each client
  roomCode,      \* Home: roomCode of each client ("" when unset)
  roomData,      \* useGameRoom: roomData of each client (last snapshot)
  playerScore,   \* Home: playerScore
  opponentScore, \* Home: opponentScore
  processed,     \* Home: processedQuestionRef.current
  selectedAnswer,\* Home: selectedAnswer (Absent when undefined)
  localSelected, \* QuestionDisplay: localSelected (Absent when undefined or not mounted)
  questions,     \* Home: the memoised questions list of each client
  timers,        \* Home: pending setTimeout callbacks of each client, oldest first
  sub,           \* useGameRoom: whether the subscription effect of each client is in place
  leaked,        \* useGameRoom: a listener whose effect was torn down before cleanupFn was set
  join,          \* joinRoom call in flight (after its get)
  submit,        \* submitAnswer call in flight (after its get)
  leave,         \* leaveRoom call in flight (after its get)
  ret,           \* the value returned by the last createRoom, joinRoom or submitAnswer call of each client
  run,           \* the parameters of this run: the clients that take part, the
                 \* configurations their lobby forms submit, the options they click
                 \* and the number of answers they give, and whether the
                 \* store was initialised
  everJoined,    \* history: identifiers placed in players since the document last came to exist
  persisted,     \* history: the questions list written by the createRoom the document stems from
  ansFor,        \* history: pointer value read by the submitAnswer that wrote answers/{p}
  resolved,      \* history: the resolutions of the answers now in the document (scores before, by whom)
  runs,          \* history: resolutions a client ran since the pointer last changed value
  budget,        \* history: numbers of lobby, leave and play-again handler calls and of answers so far
  playedAgain,   \* history: the client called play again and no snapshot has reached it since
  loaded         \* shared/questions.ts: a raw item of questions.json and what transformQuestion made of it

vars == <<room, gameState, roomCode, roomData, playerScore, opponentScore,
          processed, selectedAnswer, localSelected, questions, timers, sub, leaked, join,
          submit, leave, ret, run, everJoined, persisted, ansFor, resolved, runs, budget,
          playedAgain, loaded>>

(***************************************************************************)
(* Bounds of the model.                                                    *)
(***************************************************************************)
MaxCalls == 4
MaxGameCalls == 3
MaxLongCalls == 2
MaxAnswers == 3
MaxFewAnswers == 2
MaxScore == 1

(***************************************************************************)
(* Identifiers, the catalogue and the configurations of the lobby form.    *)
(***************************************************************************)
Clients == {"p1", "p2", "p3"}
Gamers == {"p1", "p2"}
RoomCode == "1234"
Absent == -1

Choices == {0, 1}

\* shared/questions.ts: satQuestions, each with module, difficulty, options, correct_answer
Catalog ==
  [ q1 |-> [module |-> "math", difficulty |-> "E",
            answerOptions |-> <<"a", "b">>, correct_answer |-> {"a"}],
    q2 |-> [module |-> "math", difficulty |-> "M",
            answerOptions |-> <<"c", "d">>, correct_answer |-> {"d"}] ]

satQuestions == <<"q1", "q2">>

\* GameLobby.handleCreateRoom: the config object handed to onCreateRoom
Configs ==
  { [modules |-> {}, difficulties |-> {}, numQuestions |-> 2],
    [modules |-> {"math"}, difficulties |-> {"E"}, numQuestions |-> 2],
    [modules |-> {"reading"}, difficulties |-> {}, numQuestions |-> 1] }

\* further configs of the form: a count below the number of matching
\* questions, and the count field left empty (numQuestions omitted, 0 here)
LobbyConfigs ==
  Configs \cup { [modules |-> {}, difficulties |-> {}, numQuestions |-> 1],
                 [modules |-> {}, difficulties |-> {"M"}, numQuestions |-> 0] }

NoConfig == [modules |-> {"none"}, difficulties |-> {}, numQuestions |-> 0]

(***************************************************************************)
(* shared/questions.ts: the normalisation of the raw catalogue.            *)
(***************************************************************************)
MaxOptions == 2
MaxKeys == 1

\* a string field that the raw item does not have
Undefined == "undefined"

\* an array field is the set of its value: empty when the raw item has none
NoArray == {}

\* array.length of an optional array (undefined when the array is missing)
LengthOf(a) == IF a = NoArray THEN 0 ELSE Len(CHOOSE v \in a : TRUE)

ValueOf(a) == CHOOSE v \in a : TRUE

\* a string is truthy when it is there and not empty
Truthy(str) == str # Undefined /\ str # ""

\* String.prototype.toLowerCase on the module names of the raw data
toLowerCase(str) ==
  CASE str = "Math" -> "math"
    [] str = "READING" -> "reading"
    [] OTHER -> str

OptionTexts == {"x", "y"}
AnswerTexts == {"A", "B", "x", "y"}

SeqsUpTo(S, n) == UNION {[1..k -> S] : k \in 0..n}

\* the raw items of questions.json
RawQuestions ==
  [stem : {Undefined, "", "s"},
   answerOptions : {NoArray} \cup {{v} : v \in SeqsUpTo(OptionTexts, MaxOptions)},
   correct_answer : {NoArray} \cup {{v} : v \in SeqsUpTo(AnswerTexts, MaxKeys)},
   keys : {NoArray} \cup {{v} : v \in SeqsUpTo(AnswerTexts, MaxKeys)},
   module : {Undefined, "", "Math", "reading"},
   difficulty : {Undefined, "", "E"}]

\* transformQuestion returned null
Null == [kept |-> FALSE]

\* the options it ends with: answerOptions when not empty, else keys
OptionsOf(raw) ==
  IF LengthOf(raw.answerOptions) > 0 THEN ValueOf(raw.answerOptions)
  ELSE IF LengthOf(raw.keys) > 0 THEN ValueOf(raw.keys)
  ELSE <<>>

\* the correct answers: correct_answer when not empty, else keys, else none
CorrectOf(raw) ==
  IF LengthOf(raw.correct_answer) > 0 THEN ValueOf(raw.correct_answer)
  ELSE IF LengthOf(raw.keys) > 0 THEN ValueOf(raw.keys)
  ELSE <<>>

\* transformQuestion: null, or the Question built from the raw item
transformQuestion(raw) ==
  IF ~Truthy(raw.stem) THEN Null
  ELSE IF Len(OptionsOf(raw)) = 0 THEN Null
  ELSE [kept |-> TRUE,
        module |-> IF Truthy(raw.module) /\ Truthy(toLowerCase(raw.module))
                   THEN toLowerCase(raw.module) ELSE "math",
        difficulty |-> IF Truthy(raw.difficulty) THEN raw.difficulty ELSE "M",
        stem |-> raw.stem,
        answerOptions |-> OptionsOf(raw),
        correct_answer |-> CorrectOf(raw)]

\* the catalogue is loaded: no item is being transformed
NoLoad == [st |-> "loaded"]

(***************************************************************************)
(* Sequences.                                                              *)
(***************************************************************************)
Range(s) == {s[i] : i \in DOMAIN s}

Take(s, n) == IF Len(s) <= n THEN s ELSE SubSeq(s, 1, n)

Perms(S) ==
  {s \in [1..Cardinality(S) -> S] : \A x \in S : \E i \in DOMAIN s : s[i] = x}

\* filtered.sort(() => Math.random() - 0.5): any order of the same elements
Shuffles(s) == Perms(Range(s))

(***************************************************************************)
(* The room document.                                                      *)
(***************************************************************************)
NoScores == [p \in Clients |-> Absent]

EmptyDoc ==
  [players |-> <<>>, started |-> "null", scores |-> NoScores, answers |-> NoScores,
   currentQuestion |-> Absent, questions |-> <<>>, config |-> NoConfig, cleanup |-> {}]

\* snapshot.exists()
Exists(d) == d # EmptyDoc

\* useGameRoom.createRoom: the question filter
Matching(cfg) ==
  LET byModule == IF cfg.modules # {}
                  THEN SelectSeq(satQuestions, LAMBDA q : Catalog[q].module \in cfg.modules)
                  ELSE satQuestions
  IN IF cfg.difficulties # {}
     THEN SelectSeq(byModule, LAMBDA q : Catalog[q].difficulty \in cfg.difficulties)
     ELSE byModule

\* config?.numQuestions || 10
DefaultNum == 10
NumOf(cfg) == IF cfg.numQuestions = 0 THEN DefaultNum ELSE cfg.numQuestions

\* a createRoom that persists the whole shuffled list
SelectionsUncut(cfg) == Shuffles(Matching(cfg))

\* the lists createRoom can persist for a configuration
Selections(cfg) == {Take(s, NumOf(cfg)) : s \in Shuffles(Matching(cfg))}

\* lib/firebase.ts: database, null when initializeApp or getDatabase threw
database == run.database

\* a createRoom without the return on an empty selection
CreateNeverRefused(cfg) == FALSE

\* createRoom: if (shuffled.length === 0) return false
CreateRefused(cfg) == Matching(cfg) = <<>>

\* a createRoom without the return on a null database
CreateFailsOnNoMatchOnly(cfg) == CreateRefused(cfg)

\* createRoom: the two returns of false, if (!database) and the empty selection
CreateFails(cfg) == ~database \/ CreateRefused(cfg)

\* createRoom: set(roomRef, {...})
CreateDoc(p, cfg, qs) ==
  [players |-> <<p>>, started |-> "false", scores |-> [NoScores EXCEPT ![p] = 0],
   answers |-> NoScores, currentQuestion |-> 0, questions |-> qs, config |-> cfg,
   cleanup |-> {}]

\* a joinRoom that appends to the list as it is when the write lands
JoinUpdateLive(d, read, p) ==
  [d EXCEPT !.players = Append(d.players, p),
            !.started = "true",
            !.scores = [read.scores EXCEPT ![p] = 0]]

\* a joinRoom that seeds the scores map with the joiner's entry alone
JoinUpdateOwnScore(d, read, p) ==
  [d EXCEPT !.players = Append(read.players, p),
            !.started = "true",
            !.scores = [NoScores EXCEPT ![p] = 0]]

\* joinRoom: update(roomRef, {players, started, scores}) from the document it read
JoinUpdate(d, read, p) ==
  [d EXCEPT !.players = Append(read.players, p),
            !.started = "true",
            !.scores = [read.scores EXCEPT ![p] = 0]]

\* a joinRoom without the "already joined" return
JoinWriteAlways(d, read, p) == JoinUpdate(d, read, p)

\* joinRoom past the existence and room-full checks: a member returns before
\* the update, anyone else writes it
JoinWrite(d, read, p) ==
  IF p \in Range(read.players) THEN d ELSE JoinUpdate(d, read, p)

\* a joinRoom without the limit of two players
JoinAllowedNoLimit(read, p) == read.exists

\* joinRoom: the three early returns after the get; true when the call goes
\* on to return true
JoinAllowed(read, p) ==
  read.exists /\ (p \in Range(read.players) \/ Len(read.players) < 2)

\* a submitAnswer without the "Room not found" and "Question not found" throws
SubmitAllowedAnyRoom(d, code) == TRUE

\* submitAnswer: the checks after the get; true when the call goes on to its set
SubmitAllowed(d, code) ==
  /\ code = RoomCode
  /\ Exists(d)
  /\ d.currentQuestion # Absent
  /\ d.currentQuestion < Len(d.questions)

\* a submitAnswer that replaces the answers map by set(answers, {p: answerIndex})
AnswerSetWholeMap(d, p, k) == [d EXCEPT !.answers = [NoScores EXCEPT ![p] = k]]

\* submitAnswer: set(answers/{p}, answerIndex)
AnswerSet(d, p, k) == [d EXCEPT !.answers[p] = k]

\* a nextQuestion that moves the pointer and leaves the answers for a second write
AdvancePointerOnly(d, n) == [d EXCEPT !.currentQuestion = n]

\* nextQuestion: update(roomRef, {currentQuestion, answers: null})
AdvanceDoc(d, n) == [d EXCEPT !.currentQuestion = n, !.answers = NoScores]

\* a leaveRoom that clears the leaver's score and answer and keeps the players list
LeaveUpdateKeepPlayers(d, readPlayers, p) ==
  [d EXCEPT !.players = readPlayers,
            !.scores[p] = Absent,
            !.answers[p] = Absent]

\* a leaveRoom that clears the answers map by answers: null
LeaveUpdateAllAnswers(d, readPlayers, p) ==
  [d EXCEPT !.players = SelectSeq(readPlayers, LAMBDA x : x # p),
            !.scores[p] = Absent,
            !.answers = NoScores]

\* leaveRoom: update(roomRef, {players: filtered, scores/{p}: null, answers/{p}: null})
LeaveUpdate(d, readPlayers, p) ==
  [d EXCEPT !.players = SelectSeq(readPlayers, LAMBDA x : x # p),
            !.scores[p] = Absent,
            !.answers[p] = Absent]

\* a setScores that replaces the scores map by set(scoresRef, scoresObj)
ScoresReplaceMap(d, m) == [d EXCEPT !.scores = m]

\* a setScores that replaces the room by set(roomRef, {scores: scoresObj})
ScoresSetAtRoot(d, m) == [EmptyDoc EXCEPT !.scores = m]

\* setScores: update(scoresRef, scoresObj); entries of m that are Absent are not named
ScoresUpdate(d, m) ==
  [d EXCEPT !.scores = [p \in Clients |-> IF m[p] # Absent THEN m[p] ELSE d.scores[p]]]

\* subscription effect: update(roomRef, {cleanup/{p}: {...}}) and its removal
MarkerSet(d, p) == [d EXCEPT !.cleanup = @ \cup {p}]
MarkerClear(d, p) == [d EXCEPT !.cleanup = @ \ {p}]

(***************************************************************************)
(* History variables: what the claims speak about.                         *)
(***************************************************************************)
\* identifiers placed in players, given the document e a write has produced
Joined(old, e) == IF Exists(e) THEN old \cup Range(e.players) ELSE {}

\* the list the document stems from; forgotten when the document is deleted
Stem(old, e) == IF Exists(e) THEN old ELSE <<>>

NoRound == [idx |-> Absent, base |-> NoScores, ans |-> NoScores, by |-> {}]

\* the pointer read by the submitAnswer behind each answer still in e
AnsForAfter(old, e) == [p \in Clients |-> IF e.answers[p] = Absent THEN Absent ELSE old[p]]

\* the round is over once the answers it resolved are gone
RoundAfter(old, e) == IF e.answers = NoScores THEN NoRound ELSE old

histVars == <<everJoined, persisted, ansFor, resolved, runs>>

(***************************************************************************)
(* Client state shared by the handlers.                                    *)
(***************************************************************************)
Idle == [st |-> "idle"]

\* the boolean a call of the hook resolved to
Returned(op, val) == [op |-> op, val |-> val]

NoReturn == [op |-> "none", val |-> FALSE]

\* what a subscriber receives: snapshot.val(); the cleanup markers are read by no client code
View(d) == [d EXCEPT !.cleanup = {}]

\* Home: const currentQuestionIndex = roomData?.currentQuestion || 0
Idx(rd) == IF rd.currentQuestion = Absent THEN 0 ELSE rd.currentQuestion

\* Home: const opponentId = roomData?.players?.find((id) => id !== playerId)
OpponentId(rd, c) ==
  LET others == SelectSeq(rd.players, LAMBDA x : x # c)
  IN IF others = <<>> THEN "" ELSE others[1]

\* roomData.scores[id] || 0
ScoreOr0(rd, p) == IF p = "" \/ rd.scores[p] = Absent THEN 0 ELSE rd.scores[p]

\* useGameRoom subscription effect body: onValue(...) and the marker write issued by setupRoom
Subscribe(d, c) == MarkerSet(d, c)

\* useGameRoom subscription effect cleanup: cleanupFn exists only once
\* setupRoom has resumed after its awaited marker write (done); it detaches
\* the listener and removes the marker
Unsubscribe(d, c, done) == IF done THEN MarkerClear(d, c) ELSE d

\* runs is reset for a client when the pointer of the document or of its snapshot changes value
RunsAfter(old, d, e, rdOld, rdNew) ==
  [c \in Clients |->
     IF d.currentQuestion # e.currentQuestion \/ Idx(rdOld[c]) # Idx(rdNew[c]) THEN 0 ELSE old[c]]

\* Home and useGameRoom after construction, on every client
InitClients ==
  /\ room = EmptyDoc
  /\ gameState = [c \in Clients |-> "lobby"]
  /\ roomCode = [c \in Clients |-> ""]
  /\ roomData = [c \in Clients |-> EmptyDoc]
  /\ playerScore = [c \in Clients |-> 0]
  /\ opponentScore = [c \in Clients |-> 0]
  /\ processed = [c \in Clients |-> -1]
  /\ selectedAnswer = [c \in Clients |-> Absent]
  /\ localSelected = [c \in Clients |-> Absent]
  /\ timers = [c \in Clients |-> <<>>]
  /\ sub = [c \in Clients |-> "none"]
  /\ leaked = [c \in Clients |-> FALSE]
  /\ join = [c \in Clients |-> Idle]
  /\ submit = [c \in Clients |-> Idle]
  /\ leave = [c \in Clients |-> Idle]
  /\ ret = [c \in Clients |-> NoReturn]
  /\ everJoined = {}
  /\ persisted = <<>>
  /\ ansFor = NoScores
  /\ resolved = NoRound
  /\ runs = [c \in Clients |-> 0]
  /\ budget = [calls |-> 0, answers |-> 0]
  /\ playedAgain = [c \in Clients |-> FALSE]

\* the pages run with the catalogue as loaded
InitCommon ==
  /\ InitClients
  /\ loaded = NoLoad

\* two clients play; the first render of Home memoises questions in some order
Init ==
  /\ InitCommon
  /\ run = [clients |-> Gamers, configs |-> Configs, choices |-> Choices,
            answers |-> MaxAnswers, database |-> TRUE]
  /\ questions \in [Clients -> Shuffles(satQuestions)]
  /\ \A c \in Clients \ Gamers : questions[c] = satQuestions

\* the score counters and the selection of the page
scoreVars == <<playerScore, opponentScore, processed, selectedAnswer, localSelected>>

pendVars == <<join, submit, leave>>

(***************************************************************************)
(* Home: the effects.                                                      *)
(***************************************************************************)
\* Home questions useMemo: the list built from the room's config on this client
LocalLists(cfg) ==
  IF cfg = NoConfig
  THEN Shuffles(satQuestions)
  ELSE LET ms == Matching(cfg)
       IN IF ms = <<>> THEN {satQuestions}
          ELSE {IF cfg.numQuestions > 0 THEN Take(s, cfg.numQuestions) ELSE s : s \in Shuffles(ms)}

\* currentQuestion.content.correct_answer.includes(currentQuestion.content.answerOptions[k]);
\* answerOptions[undefined] is undefined, which correct_answer does not include
Correct(q, k) == k # Absent /\ Catalog[q].answerOptions[k + 1] \in Catalog[q].correct_answer

Gain(q, k) == IF Correct(q, k) THEN 1 ELSE 0

\* Home "Handle game state transitions" effect
Transition(gs, rd) ==
  IF Exists(rd) /\ gs = "waiting" /\ rd.started = "true" /\ Len(rd.players) = 2
  THEN "playing" ELSE gs

\* a guard that settles for the client's own answer
BothAnsweredOwnOnly(c, rd) ==
  /\ rd.answers[c] # Absent
  /\ OpponentId(rd, c) # ""

\* the guard of the answer processing effect: both players have answered and
\* this index has not been processed
BothAnswered(c, rd) ==
  /\ rd.answers[c] # Absent
  /\ OpponentId(rd, c) # ""
  /\ rd.answers[OpponentId(rd, c)] # Absent

Fires(c, gs, rd, pr) ==
  /\ Exists(rd)
  /\ gs = "playing"
  /\ pr # Idx(rd)
  /\ BothAnswered(c, rd)

\* the scores object handed to setScores
ToUpdate(c, opp, newPlayerScore, newOpponentScore) ==
  [p \in Clients |-> IF p = c THEN newPlayerScore
                     ELSE IF p = opp THEN newOpponentScore ELSE Absent]

\* history: the round the resolution belongs to
RoundWith(rnd, d, c) ==
  IF rnd.by = {}
  THEN [idx |-> d.currentQuestion, base |-> d.scores, ans |-> d.answers, by |-> {c}]
  ELSE [rnd EXCEPT !.by = @ \cup {c}]

\* Home "Handle answer processing" effect, run with the values of one render:
\* L is the client's state, d the document, rnd and rn the history
AnswerEffect(c, L, d, rnd, rn) ==
  LET idx == Idx(L.rd)
      opp == OpponentId(L.rd, c)
      q == L.qs[idx + 1]
      newPlayerScore == L.ps + Gain(q, L.rd.answers[c])
      newOpponentScore == L.os + Gain(q, L.rd.answers[opp])
      written == IF L.code = RoomCode
                 THEN ScoresUpdate(d, ToUpdate(c, opp, newPlayerScore, newOpponentScore))
                 ELSE d
  IN IF ~Fires(c, L.gs, L.rd, L.pr)
     THEN [L |-> L, doc |-> d, round |-> rnd, runs |-> rn]
     ELSE IF idx >= Len(L.qs)
     THEN \* questions[currentQuestionIndex] is undefined: the effect throws
          [L |-> [L EXCEPT !.pr = idx, !.gs = "crashed"], doc |-> d, round |-> rnd, runs |-> rn]
     ELSE [L |-> [L EXCEPT !.pr = idx, !.ps = newPlayerScore, !.os = newOpponentScore,
                           !.tm = Append(@, [idx |-> idx, len |-> Len(L.qs)])],
           doc |-> written,
           round |-> RoundWith(rnd, d, c),
           runs |-> IF rn < 2 THEN rn + 1 ELSE rn]

\* the renders that follow a change of the page's state: the transition
\* effect and the answer effect see the state of the render they belong to
Settle(c, L, d, rnd, rn) ==
  LET r1 == AnswerEffect(c, L, d, rnd, rn)
      gs1 == IF r1.L.gs = "crashed" THEN "crashed" ELSE Transition(L.gs, L.rd)
      L1 == [r1.L EXCEPT !.gs = gs1]
  IN IF gs1 # L.gs /\ gs1 # "crashed"
     THEN AnswerEffect(c, L1, r1.doc, r1.round, r1.runs)
     ELSE [r1 EXCEPT !.L = L1]

\* the page state of client c as one record
Local(c) ==
  [gs |-> gameState[c], code |-> roomCode[c], rd |-> roomData[c], ps |-> playerScore[c],
   os |-> opponentScore[c], pr |-> processed[c], sel |-> selectedAnswer[c],
   qs |-> questions[c], tm |-> timers[c]]

\* Home render: questions[safeIndex], the question handed to QuestionDisplay
Shown(qs, rd) ==
  IF qs = <<>> THEN ""
  ELSE qs[(IF Idx(rd) < Len(qs) - 1 THEN Idx(rd) ELSE Len(qs) - 1) + 1]

\* QuestionDisplay: localSelected after the renders that take the page to L.
\* The component is mounted while the page is playing; its effects set
\* localSelected to the selectedAnswer prop when that changed and to
\* undefined when question.id changed or on mount
LocalSelectedAfter(c, L) ==
  IF L.gs # "playing" THEN Absent
  ELSE IF gameState[c] # "playing" \/ Shown(L.qs, L.rd) # Shown(questions[c], roomData[c])
  THEN Absent
  ELSE IF L.sel # selectedAnswer[c] THEN L.sel
  ELSE localSelected[c]

\* the page state of client c becomes L
SetLocal(c, L) ==
  /\ gameState' = [gameState EXCEPT ![c] = L.gs]
  /\ roomCode' = [roomCode EXCEPT ![c] = L.code]
  /\ roomData' = [roomData EXCEPT ![c] = L.rd]
  /\ playerScore' = [playerScore EXCEPT ![c] = L.ps]
  /\ opponentScore' = [opponentScore EXCEPT ![c] = L.os]
  /\ processed' = [processed EXCEPT ![c] = L.pr]
  /\ selectedAnswer' = [selectedAnswer EXCEPT ![c] = L.sel]
  /\ localSelected' = [localSelected EXCEPT ![c] = LocalSelectedAfter(c, L)]
  /\ questions' = [questions EXCEPT ![c] = L.qs]
  /\ timers' = [timers EXCEPT ![c] = L.tm]

\* the document becomes e: the history follows
SetRoom(e, rnd, rn) ==
  /\ room' = e
  /\ everJoined' = Joined(everJoined, e)
  /\ persisted' = Stem(persisted, e)
  /\ ansFor' = AnsForAfter(ansFor, e)
  /\ resolved' = RoundAfter(rnd, e)
  /\ runs' = RunsAfter(rn, room, e, roomData, roomData')

RunsWith(c, n) == [runs EXCEPT ![c] = n]

\* a lobby handler that enters the room whatever the call returned
LobbyOutcomeIgnoringResult(L, success, phase) == [L EXCEPT !.gs = phase, !.code = RoomCode]

\* Home.handleCreateRoom and Home.handleJoinRoom after the awaited call:
\* if (success) { setRoomCode(code); setGameState(phase) } else a toast
LobbyOutcome(L, success, phase) ==
  IF success THEN [L EXCEPT !.gs = phase, !.code = RoomCode] ELSE L

\* the number of lobby, leave and play-again handler calls a run may make
\* (a room of several questions is played without further calls; a run of
\* fewer answers has the calls of a run of room operations)
CallLimit ==
  IF run.clients # Gamers \/ run.answers < MaxAnswers THEN MaxCalls
  ELSE IF Len(room.questions) > 1 THEN MaxLongCalls ELSE MaxGameCalls

\* the clients are interchangeable: the first call of a run is p1's
MayCall(c) == budget.calls < CallLimit /\ (budget.calls = 0 => c = "p1")

(***************************************************************************)
(* Lobby: create and join.                                                 *)
(***************************************************************************)
\* Home.handleCreateRoom -> useGameRoom.createRoom; on success the page enters
\* waiting and the subscription effect of the hook starts
HandleCreateRoom(c, cfg) ==
  /\ c \in run.clients
  /\ gameState[c] = "lobby"
  /\ join[c] = Idle
  /\ cfg \in run.configs
  /\ MayCall(c)
  /\ budget' = [budget EXCEPT !.calls = @ + 1]
  /\ ret' = [ret EXCEPT ![c] = Returned("createRoom", ~CreateFails(cfg))]
  /\ IF CreateFails(cfg)
     THEN \* createRoom returns false before any write
          \E L \in {LobbyOutcome(Local(c), FALSE, "waiting")} :
            /\ SetLocal(c, L)
            /\ sub' = [sub EXCEPT ![c] = IF L.code = RoomCode THEN "on" ELSE @]
            /\ UNCHANGED <<room, histVars>>
     ELSE \E qs \in Selections(cfg) :
            \E r \in {Settle(c, LobbyOutcome(Local(c), TRUE, "waiting"),
                             Subscribe(CreateDoc(c, cfg, qs), c), NoRound, 0)} :
               /\ SetLocal(c, r.L)
               /\ sub' = [sub EXCEPT ![c] = "on"]
               /\ room' = r.doc
               /\ everJoined' = {c}
               /\ persisted' = qs
               /\ ansFor' = NoScores
               /\ resolved' = r.round
               /\ runs' = RunsAfter(RunsWith(c, r.runs), room, r.doc, roomData, roomData)
  /\ UNCHANGED <<leaked, pendVars, run, loaded, playedAgain>>

\* joinRoom: const snapshot = await get(roomRef); with a null database it
\* returns false at once and Home.handleJoinRoom stays in the lobby
JoinRead(c) ==
  /\ c \in run.clients
  /\ gameState[c] = "lobby"
  /\ join[c] = Idle
  /\ MayCall(c)
  /\ budget' = [budget EXCEPT !.calls = @ + 1]
  /\ IF database
     THEN /\ join' = [join EXCEPT ![c] = [st |-> "read", exists |-> Exists(room),
                                          players |-> room.players, scores |-> room.scores]]
          /\ UNCHANGED ret
     ELSE /\ ret' = [ret EXCEPT ![c] = Returned("joinRoom", FALSE)]
          /\ UNCHANGED join
  /\ UNCHANGED <<room, gameState, roomCode, roomData, scoreVars, questions, timers, sub,
                 leaked, submit, leave, run, loaded, histVars, playedAgain>>

\* joinRoom after the get: the three early returns, else the update; then
\* Home.handleJoinRoom enters playing when joinRoom returned true
JoinFinish(c) ==
  /\ join[c] # Idle
  /\ join' = [join EXCEPT ![c] = Idle]
  /\ LET read == join[c]
         ok == JoinAllowed(read, c)
         written == JoinWrite(room, read, c)
     IN /\ ret' = [ret EXCEPT ![c] = Returned("joinRoom", ok)]
        /\ IF ok
           THEN \E r \in {Settle(c, LobbyOutcome(Local(c), TRUE, "playing"),
                                 Subscribe(written, c), resolved, runs[c])} :
                  /\ SetLocal(c, r.L)
                  /\ sub' = [sub EXCEPT ![c] = "on"]
                  /\ SetRoom(r.doc, r.round, RunsWith(c, r.runs))
           ELSE \E L \in {LobbyOutcome(Local(c), FALSE, "playing")} :
                  /\ SetLocal(c, L)
                  /\ sub' = [sub EXCEPT ![c] = IF L.code = RoomCode THEN "on" ELSE @]
                  /\ UNCHANGED <<room, histVars>>
  /\ UNCHANGED <<leaked, submit, leave, run, loaded, budget, playedAgain>>

(***************************************************************************)
(* Leaving a room.                                                         *)
(***************************************************************************)
\* the part common to Home.handleCancel and Home.handleNewRoom: leaveRoom is
\* called (its get is answered from the document as it is now), the page goes
\* back to the lobby and the subscription effect of the hook is torn down.
\* Whether setupRoom has resumed by then decides between a clean teardown and
\* a listener that stays attached
LeaveCall(c) ==
  /\ c \in run.clients
  /\ leave[c] = Idle
  /\ MayCall(c)
  /\ budget' = [budget EXCEPT !.calls = @ + 1]
  /\ leave' = [leave EXCEPT ![c] = IF roomCode[c] = RoomCode
                                    THEN [st |-> "read", exists |-> Exists(room),
                                          players |-> room.players]
                                    ELSE Idle]
  /\ gameState' = [gameState EXCEPT ![c] = "lobby"]
  /\ roomCode' = [roomCode EXCEPT ![c] = ""]
  /\ sub' = [sub EXCEPT ![c] = "none"]
  /\ playedAgain' = [playedAgain EXCEPT ![c] = FALSE]
  /\ UNCHANGED <<roomData, questions, timers, join, submit, ret, run, loaded>>
  /\ \E done \in IF sub[c] = "on" THEN BOOLEAN ELSE {TRUE} :
       /\ leaked' = [leaked EXCEPT ![c] = @ \/ ~done]
       /\ SetRoom(Unsubscribe(room, c, done /\ sub[c] = "on"), resolved, runs)

\* Home.handleCancel (the waiting room's cancel button)
HandleCancel(c) ==
  /\ gameState[c] = "waiting"
  /\ LeaveCall(c)
  /\ localSelected' = [localSelected EXCEPT ![c] = Absent]
  /\ UNCHANGED <<playerScore, opponentScore, processed, selectedAnswer>>

\* Home.handleNewRoom (leave button while playing, new-room button at game over)
HandleNewRoom(c) ==
  /\ gameState[c] \in {"playing", "gameover"}
  /\ LeaveCall(c)
  /\ selectedAnswer' = [selectedAnswer EXCEPT ![c] = Absent]
  /\ localSelected' = [localSelected EXCEPT ![c] = Absent]
  /\ playerScore' = [playerScore EXCEPT ![c] = 0]
  /\ opponentScore' = [opponentScore EXCEPT ![c] = 0]
  /\ processed' = [processed EXCEPT ![c] = -1]

\* leaveRoom after its get: remove the room when the caller is its only
\* player, else drop the caller's entries
LeaveFinish(c) ==
  /\ leave[c] # Idle
  /\ leave' = [leave EXCEPT ![c] = Idle]
  /\ UNCHANGED <<gameState, roomCode, roomData, scoreVars, questions, timers, sub,
                 leaked, join, submit, ret, run, loaded, budget, playedAgain>>
  /\ SetRoom(IF ~leave[c].exists THEN room
             ELSE IF leave[c].players = <<c>> THEN EmptyDoc
             ELSE LeaveUpdate(room, leave[c].players, c),
             resolved, runs)

(***************************************************************************)
(* The room operations alone, issued by three clients.                     *)
(***************************************************************************)
InitRoom ==
  /\ InitCommon
  /\ questions = [c \in Clients |-> satQuestions]
  /\ run = [clients |-> Clients, configs |-> LobbyConfigs, choices |-> Choices, answers |-> 0,
            database |-> TRUE]

NextRoom ==
  \/ \E c \in Clients, cfg \in LobbyConfigs : HandleCreateRoom(c, cfg)
  \/ \E c \in Clients : JoinRead(c)
  \/ \E c \in Clients : JoinFinish(c)
  \/ \E c \in Clients : HandleCancel(c)
  \/ \E c \in Clients : HandleNewRoom(c)
  \/ \E c \in Clients : LeaveFinish(c)

SpecRoom == InitRoom /\ [][NextRoom]_vars

(***************************************************************************)
(* setScores as an operation of the hook, called with any scores object.   *)
(***************************************************************************)
\* the scores objects a caller hands to setScores: one or both of the two
\* players named, each with a total
ScoreMaps ==
  {m \in [Clients -> {Absent} \cup (0..MaxScore)] :
     m # NoScores /\ \A p \in Clients \ Gamers : m[p] = Absent}

\* useGameRoom.setScores(roomCode, scoresObj) by a client that is in the room
SetScoresCall(c, m) ==
  /\ c \in run.clients
  /\ roomCode[c] = RoomCode
  /\ m \in ScoreMaps
  /\ UNCHANGED <<gameState, roomCode, roomData, scoreVars, questions, timers, sub,
                 leaked, pendVars, ret, run, loaded, budget, playedAgain>>
  /\ SetRoom(ScoresUpdate(room, m), resolved, runs)

\* two clients make a room and call setScores
InitScores ==
  /\ InitCommon
  /\ questions = [c \in Clients |-> satQuestions]
  /\ run = [clients |-> Gamers, configs |-> Configs, choices |-> Choices,
            answers |-> MaxAnswers, database |-> TRUE]

NextScores ==
  \/ \E c \in Gamers, cfg \in Configs : HandleCreateRoom(c, cfg)
  \/ \E c \in Gamers : JoinRead(c)
  \/ \E c \in Gamers : JoinFinish(c)
  \/ \E c \in Gamers, m \in ScoreMaps : SetScoresCall(c, m)

SpecScores == InitScores /\ [][NextScores]_vars

(***************************************************************************)
(* Playing.                                                                *)
(***************************************************************************)
\* the render in which Home first sees the snapshot rd: reset on question
\* change runs before the answer effect, which sees the counters of before
\* the score sync
FirstRender(c, rd, qs) ==
  LET L0 == [Local(c) EXCEPT !.rd = rd, !.qs = qs]
      changed == Idx(rd) # Idx(roomData[c])
      L1 == IF changed THEN [L0 EXCEPT !.sel = Absent, !.pr = -1] ELSE L0
  IN AnswerEffect(c, L1, room, resolved, IF changed THEN 0 ELSE runs[c])

\* the state after that render: the setState calls of the score sync come
\* first, those of the answer effect win; then the transition effect
AfterFirstRender(c, rd, r1) ==
  LET fired == r1.runs # (IF Idx(rd) # Idx(roomData[c]) THEN 0 ELSE runs[c])
      L2 == IF rd.scores # NoScores /\ ~fired
            THEN [r1.L EXCEPT !.ps = ScoreOr0(rd, c), !.os = ScoreOr0(rd, OpponentId(rd, c))]
            ELSE r1.L
  IN [L2 EXCEPT !.gs = IF @ = "crashed" THEN @ ELSE Transition(gameState[c], rd)]

\* the onValue listener of the hook calls setRoomData(snapshot.val()); Home
\* renders with the new roomData and its effects run in the order they are
\* written: score sync, reset on question change, transition, answer
Deliver(c) ==
  /\ c \in run.clients
  /\ sub[c] # "none" \/ leaked[c]
  /\ \E qs \in IF roomData[c].config = NoConfig /\ room.config = NoConfig
               THEN {questions[c]} ELSE LocalLists(room.config) :
     \E r1 \in {FirstRender(c, View(room), qs)} :
     \E L3 \in {AfterFirstRender(c, View(room), r1)} :
     \* next render: only a change of gameState lets the answer effect act again
     \E r2 \in {IF L3.gs # gameState[c] /\ L3.gs # "crashed"
                THEN AnswerEffect(c, L3, r1.doc, r1.round, r1.runs)
                ELSE [r1 EXCEPT !.L = L3]} :
       /\ SetLocal(c, r2.L)
       /\ SetRoom(r2.doc, r2.round, RunsWith(c, r2.runs))
  /\ playedAgain' = [playedAgain EXCEPT ![c] = FALSE]
  /\ UNCHANGED <<sub, leaked, pendVars, ret, run, loaded, budget>>

\* Home render: isWaiting = selectedAnswer !== undefined && !roomData?.answers?.[opponentId || ""]
IsWaiting(c) ==
  /\ selectedAnswer[c] # Absent
  /\ \/ OpponentId(roomData[c], c) = ""
     \/ roomData[c].answers[OpponentId(roomData[c], c)] = Absent

\* QuestionDisplay.handleSelect -> Home.handleAnswer -> useGameRoom.submitAnswer
\* up to the answer of its get: the call goes on to write only if the room
\* and its current question exist
HandleAnswer(c, k) ==
  /\ c \in run.clients
  /\ k \in run.choices
  /\ gameState[c] = "playing"
  /\ questions[c] # <<>>
  /\ localSelected[c] = Absent
  /\ ~IsWaiting(c)
  /\ submit[c] = Idle
  /\ budget.answers < run.answers
  /\ budget' = [budget EXCEPT !.answers = @ + 1]
  /\ selectedAnswer' = [selectedAnswer EXCEPT ![c] = k]
  /\ localSelected' = [localSelected EXCEPT ![c] = k]
  /\ submit' = [submit EXCEPT ![c] =
       [st |-> "read", k |-> k, ptr |-> room.currentQuestion,
        exists |-> roomCode[c] = RoomCode /\ Exists(room),
        ok |-> SubmitAllowed(room, roomCode[c])]]
  /\ UNCHANGED <<room, gameState, roomCode, roomData, playerScore, opponentScore,
                 processed, questions, timers, sub, leaked, join, leave, ret, run, loaded,
                 histVars, playedAgain>>

\* submitAnswer after its get: set(answers/{playerId}, answerIndex)
SubmitFinish(c) ==
  /\ submit[c] # Idle
  /\ submit' = [submit EXCEPT ![c] = Idle]
  /\ ret' = [ret EXCEPT ![c] = Returned("submitAnswer", submit[c].ok)]
  /\ LET e == IF submit[c].ok THEN AnswerSet(room, c, submit[c].k) ELSE room
     IN /\ room' = e
        /\ everJoined' = Joined(everJoined, e)
        /\ ansFor' = IF submit[c].ok THEN [ansFor EXCEPT ![c] = submit[c].ptr] ELSE ansFor
  /\ UNCHANGED <<gameState, roomCode, roomData, scoreVars, questions, timers, sub,
                 leaked, join, leave, run, loaded, persisted, resolved, runs, budget, playedAgain>>

\* the setTimeout callback of a resolution fires: it advances the room it was
\* scheduled for, or ends the game on this client
TimerFire(c) ==
  /\ timers[c] # <<>>
  /\ LET t == Head(timers[c])
         L == [Local(c) EXCEPT !.tm = Tail(@)]
     IN IF t.idx < t.len - 1
        THEN /\ SetLocal(c, L)
             /\ SetRoom(AdvanceDoc(room, t.idx + 1), resolved, runs)
        ELSE /\ SetLocal(c, [L EXCEPT !.gs = IF @ = "crashed" THEN @ ELSE "gameover"])
             /\ UNCHANGED <<room, histVars>>
  /\ UNCHANGED <<sub, leaked, pendVars, ret, run, loaded, budget, playedAgain>>

\* Home.handlePlayAgain, and the render that follows it
HandlePlayAgain(c) ==
  /\ c \in run.clients
  /\ gameState[c] = "gameover"
  /\ MayCall(c)
  /\ budget' = [budget EXCEPT !.calls = @ + 1]
  /\ \E again \in {IF roomCode[c] = RoomCode THEN AdvanceDoc(room, 0) ELSE room} :
     \E r \in {Settle(c, [Local(c) EXCEPT !.sel = Absent, !.ps = 0, !.os = 0, !.pr = -1,
                                          !.gs = "playing"],
                      again, RoundAfter(resolved, again), runs[c])} :
        /\ SetLocal(c, r.L)
        /\ SetRoom(r.doc, r.round, RunsWith(c, r.runs))
  /\ playedAgain' = [playedAgain EXCEPT ![c] = TRUE]
  /\ UNCHANGED <<sub, leaked, pendVars, ret, run, loaded>>

(***************************************************************************)
(* The game of two clients.                                                *)
(***************************************************************************)
Next ==
  \/ \E c \in Gamers, cfg \in Configs : HandleCreateRoom(c, cfg)
  \/ \E c \in Gamers : JoinRead(c)
  \/ \E c \in Gamers : JoinFinish(c)
  \/ \E c \in Gamers : Deliver(c)
  \/ \E c \in Gamers, k \in Choices : HandleAnswer(c, k)
  \/ \E c \in Gamers : SubmitFinish(c)
  \/ \E c \in Gamers : TimerFire(c)
  \/ \E c \in Gamers : HandlePlayAgain(c)
  \/ \E c \in Gamers : HandleCancel(c)
  \/ \E c \in Gamers : HandleNewRoom(c)
  \/ \E c \in Gamers : LeaveFinish(c)

Spec == Init /\ [][Next]_vars

\* the configurations that select at most one question
ShortConfigs == {cfg \in Configs : Len(Matching(cfg)) <= 1}

\* a game of one question in which the first option is the one clicked
InitShort ==
  /\ InitCommon
  /\ run = [clients |-> Gamers, configs |-> ShortConfigs, choices |-> {0},
            answers |-> MaxAnswers, database |-> TRUE]
  /\ questions \in [Clients -> Shuffles(satQuestions)]
  /\ \A c \in Clients \ Gamers : questions[c] = satQuestions

\* that game where the store and the timers do their part: a snapshot is
\* delivered to every listener, a timer that was set fires, and a call that
\* has read the document goes on to its write
FairSpec ==
  /\ InitShort
  /\ [][Next]_vars
  /\ \A c \in Gamers : /\ WF_vars(Deliver(c))
                        /\ WF_vars(TimerFire(c))
                        /\ WF_vars(SubmitFinish(c))
                        /\ WF_vars(JoinFinish(c))
                        /\ WF_vars(LeaveFinish(c))

(***************************************************************************)
(* The hook without a store: database is null.                             *)
(***************************************************************************)
\* the operations of the hook that the page calls outside the lobby
HookOps == {"submitAnswer", "nextQuestion", "leaveRoom", "setScores"}

\* submitAnswer, nextQuestion, leaveRoom or setScores called with a null
\* database: if (!database) return false, or return
NoStoreCall(c, op) ==
  /\ ~database
  /\ c \in run.clients
  /\ op \in HookOps
  /\ MayCall(c)
  /\ budget' = [budget EXCEPT !.calls = @ + 1]
  /\ ret' = [ret EXCEPT ![c] = Returned(op, FALSE)]
  /\ UNCHANGED <<room, gameState, roomCode, roomData, scoreVars, questions, timers, sub,
                 leaked, pendVars, run, loaded, histVars, playedAgain>>

InitNoStore ==
  /\ InitCommon
  /\ questions = [c \in Clients |-> satQuestions]
  /\ run = [clients |-> Clients, configs |-> LobbyConfigs, choices |-> Choices, answers |-> 0,
            database |-> FALSE]

NextNoStore ==
  \/ \E c \in Clients, cfg \in LobbyConfigs : HandleCreateRoom(c, cfg)
  \/ \E c \in Clients : JoinRead(c)
  \/ \E c \in Clients, op \in HookOps : NoStoreCall(c, op)

SpecNoStore == InitNoStore /\ [][NextNoStore]_vars

(***************************************************************************)
(* The phases of two clients that create, join and leave rooms and receive *)
(* snapshots, without answering.                                           *)
(***************************************************************************)
InitPhases ==
  /\ InitCommon
  /\ run = [clients |-> Gamers, configs |-> Configs, choices |-> {}, answers |-> 0,
            database |-> TRUE]
  /\ questions \in [Clients -> Shuffles(satQuestions)]
  /\ \A c \in Clients \ Gamers : questions[c] = satQuestions

NextPhases ==
  \/ \E c \in Gamers, cfg \in Configs : HandleCreateRoom(c, cfg)
  \/ \E c \in Gamers : JoinRead(c)
  \/ \E c \in Gamers : JoinFinish(c)
  \/ \E c \in Gamers : Deliver(c)
  \/ \E c \in Gamers : HandleCancel(c)
  \/ \E c \in Gamers : HandleNewRoom(c)
  \/ \E c \in Gamers : LeaveFinish(c)

SpecPhases == InitPhases /\ [][NextPhases]_vars

(***************************************************************************)
(* A host that leaves its room during a game and opens another one: p1     *)
(* creates and leaves rooms, p2 joins; the first option is the one clicked. *)
(***************************************************************************)
InitHost ==
  /\ InitCommon
  /\ run = [clients |-> Gamers, configs |-> Configs, choices |-> {0},
            answers |-> MaxFewAnswers, database |-> TRUE]
  /\ questions = [c \in Clients |-> satQuestions]

NextHost ==
  \/ \E cfg \in Configs : HandleCreateRoom("p1", cfg)
  \/ JoinRead("p2")
  \/ JoinFinish("p2")
  \/ \E c \in Gamers : Deliver(c)
  \/ \E c \in Gamers : HandleAnswer(c, 0)
  \/ \E c \in Gamers : SubmitFinish(c)
  \/ \E c \in Gamers : TimerFire(c)
  \/ HandleNewRoom("p1")
  \/ LeaveFinish("p1")

SpecHost == InitHost /\ [][NextHost]_vars

(***************************************************************************)
(* The loading of the catalogue: transformQuestion on one raw item.        *)
(***************************************************************************)
InitCatalog ==
  /\ InitClients
  /\ run = [clients |-> {}, configs |-> {}, choices |-> {}, answers |-> 0, database |-> TRUE]
  /\ questions = [c \in Clients |-> <<>>]
  /\ loaded \in [st : {"raw"}, raw : RawQuestions]

\* satQuestions: .map(([id, raw]) => transformQuestion(id, raw))
TransformQuestion ==
  /\ loaded.st = "raw"
  /\ loaded' = [st |-> "done", raw |-> loaded.raw, out |-> transformQuestion(loaded.raw)]
  /\ UNCHANGED <<room, gameState, roomCode, roomData, scoreVars, questions, timers, sub,
                 leaked, pendVars, ret, run, histVars, budget, playedAgain>>

NextCatalog == TransformQuestion

SpecCatalog == InitCatalog /\ [][NextCatalog]_vars

(***************************************************************************)
(* Properties of the catalogue normalisation (SpecCatalog).                *)
(***************************************************************************)
\* position of a choice letter among the options, 0 for any other text
LetterIndex(str) ==
  CASE str = "A" -> 1 [] str = "B" -> 2 [] str = "C" -> 3 [] str = "D" -> 4 [] OTHER -> 0

\* the raw item has no stem, or neither answer options nor keys to use as options
Unusable(r) ==
  \/ r.stem \in {Undefined, ""}
  \/ /\ r.answerOptions \subseteq {<<>>}
     /\ r.keys \subseteq {<<>>}

\* C31: transformQuestion returns no entry for a raw item without a stem or
\* that ends with no answer options; a question it keeps has at least one
\* answer option, a module in lower case (math when the raw item has none)
\* and a difficulty (M when the raw item has none); and a correct answer
\* given as a choice letter A to D is replaced by the text of the option at
\* that position.
C31_NormalisedQuestions ==
  loaded.st = "done" =>
    LET r == loaded.raw
        q == loaded.out
    IN /\ Unusable(r) => ~q.kept
       /\ q.kept =>
            /\ Len(q.answerOptions) >= 1
            /\ q.module \in {"math", "reading"}
            /\ r.module \in {Undefined, ""} => q.module = "math"
            /\ q.difficulty \notin {Undefined, ""}
            /\ r.difficulty \in {Undefined, ""} => q.difficulty = "M"
            /\ \A i \in DOMAIN q.correct_answer :
                 LET k == LetterIndex(q.correct_answer[i])
                 IN (k >= 1 /\ k <= Len(q.answerOptions))
                      => q.correct_answer[i] = q.answerOptions[k]

(***************************************************************************)
(* Properties of the room document under the room operations (SpecRoom).   *)
(***************************************************************************)
\* C1: in every reachable state the players list has at most two entries and
\* holds no identifier twice, whatever the interleaving of createRoom,
\* joinRoom (read, then write) and leaveRoom by three clients
C1_PlayersAtMostTwoDistinct ==
  /\ Len(room.players) <= 2
  /\ \A i, j \in DOMAIN room.players : i # j => room.players[i] # room.players[j]

\* C1 witness: two joinRoom calls read the same one-player room and both
\* wrote; the second write replaced the first joiner, who plays on
C1_JoinRaceHappened ==
  /\ Len(room.players) = 2
  /\ everJoined = Clients
  /\ \E c \in Clients : gameState[c] = "playing" /\ roomCode[c] = RoomCode
                         /\ c \notin Range(room.players)

\* C10: while the room exists its scores map has an entry for every
\* identifier that createRoom or a successful joinRoom placed in players
C10_ScoreForEveryoneEverJoined ==
  Exists(room) => \A p \in everJoined : room.scores[p] # Absent

\* the step is the write half of a joinRoom of client c whose get returned
\* the players and scores the document still has
JoinsUndisturbed(c) ==
  /\ join[c] # Idle
  /\ join[c].exists /\ Exists(room)
  /\ join[c].players = room.players
  /\ join[c].scores = room.scores
  /\ JoinFinish(c)

\* C11: joinRoom by a non-member on a room with exactly one participant and
\* no concurrent writer returns true (the page enters playing) and leaves
\* players = previous list with the joiner appended (two entries), started
\* true, a score 0 for the joiner, the other scores as they were, and
\* currentQuestion, questions and config unchanged
C11_JoinAppendsAndSeeds ==
  [][\A c \in Clients :
       (JoinsUndisturbed(c) /\ Len(room.players) = 1 /\ c \notin Range(room.players))
         => /\ ret'[c] = Returned("joinRoom", TRUE)
            /\ gameState'[c] = "playing" /\ roomCode'[c] = RoomCode
            /\ room'.players = Append(room.players, c)
            /\ Len(room'.players) = 2
            /\ room'.started = "true"
            /\ room'.scores[c] = 0
            /\ \A p \in Clients \ {c} : room'.scores[p] = room.scores[p]
            /\ room'.currentQuestion = room.currentQuestion
            /\ room'.questions = room.questions
            /\ room'.config = room.config]_vars

\* C11 witness: one createRoom and one joinRoom were called and the joiner
\* is in; the creator's score entry is still there
C11_JoinedOnePlayerRoom ==
  /\ budget.calls = 2
  /\ room.players = <<"p1", "p2">>
  /\ room.started = "true"
  /\ room.scores["p1"] = 0 /\ room.scores["p2"] = 0
  /\ gameState["p2"] = "playing"
  /\ ret["p2"] = Returned("joinRoom", TRUE)

\* C12: joinRoom by a client that its get finds in the players list returns
\* true (the page enters playing) and writes nothing: players, started,
\* scores, answers, currentQuestion and questions are as before, so any
\* number of such calls leaves the room as one call does
C12_MemberJoinWritesNothing ==
  [][\A c \in Clients :
       (join[c] # Idle /\ join[c].exists /\ c \in Range(join[c].players) /\ JoinFinish(c))
         => /\ ret'[c] = Returned("joinRoom", TRUE)
            /\ gameState'[c] = "playing" /\ roomCode'[c] = RoomCode
            /\ room'.players = room.players
            /\ room'.started = room.started
            /\ room'.scores = room.scores
            /\ room'.answers = room.answers
            /\ room'.currentQuestion = room.currentQuestion
            /\ room'.questions = room.questions]_vars

\* C12 witness: the creator of a room that no one else joined is playing:
\* it went back to the lobby and its joinRoom found it in the players list
C12_CreatorRejoined ==
  /\ room.players = <<"p1">>
  /\ room.started = "false"
  /\ gameState["p1"] = "playing"
  /\ roomCode["p1"] = RoomCode
  /\ ret["p1"] = Returned("joinRoom", TRUE)

\* C13: joinRoom by a third identity whose get finds two other participants
\* in the players list returns false and leaves every field of the room
\* document as it was; the page stays in the lobby
C13_FullRoomRefuses ==
  [][\A c \in Clients :
       ( /\ join[c] # Idle /\ join[c].exists
         /\ Len(join[c].players) = 2 /\ c \notin Range(join[c].players)
         /\ JoinFinish(c) )
         => /\ ret'[c] = Returned("joinRoom", FALSE)
            /\ room' = room
            /\ gameState'[c] = "lobby"]_vars

\* C13 witness: the third client's joinRoom returned false and the room
\* still holds the two others
C13_ThirdClientRefused ==
  /\ ret["p3"] = Returned("joinRoom", FALSE)
  /\ gameState["p3"] = "lobby"
  /\ Len(room.players) = 2
  /\ Range(room.players) = {"p1", "p2"}
  /\ everJoined = {"p1", "p2"}

\* the question matches the module and difficulty filter of cfg
Matches(q, cfg) ==
  /\ cfg.modules # {} => Catalog[q].module \in cfg.modules
  /\ cfg.difficulties # {} => Catalog[q].difficulty \in cfg.difficulties

\* the number of catalogue questions that match cfg
MatchCount(cfg) == Cardinality({q \in Range(satQuestions) : Matches(q, cfg)})

\* C15: for every configuration with at least one matching catalogue
\* question createRoom returns true and writes currentQuestion 0, started
\* false, players [creator], scores {creator: 0} and a questions list of
\* length min(count, number of matching questions) (count being 10 when the
\* configuration names none), of pairwise distinct identifiers that all
\* match the filter
C15_CreateWritesSelection ==
  [][\A c \in Clients : \A cfg \in LobbyConfigs :
       (MatchCount(cfg) >= 1 /\ HandleCreateRoom(c, cfg))
         => /\ ret'[c] = Returned("createRoom", TRUE)
            /\ room'.currentQuestion = 0
            /\ room'.started = "false"
            /\ room'.players = <<c>>
            /\ room'.scores = [NoScores EXCEPT ![c] = 0]
            /\ Len(room'.questions) =
                 (IF NumOf(cfg) < MatchCount(cfg) THEN NumOf(cfg) ELSE MatchCount(cfg))
            /\ \A i, j \in DOMAIN room'.questions :
                 i # j => room'.questions[i] # room'.questions[j]
            /\ \A i \in DOMAIN room'.questions : Matches(room'.questions[i], cfg)]_vars

\* C15 witness: a room was created with a count of one where two questions
\* match: the persisted list has one entry
C15_CreatedWithCountBelowMatches ==
  /\ room.config = [modules |-> {}, difficulties |-> {}, numQuestions |-> 1]
  /\ Len(room.questions) = 1
  /\ room.players = <<"p1">>
  /\ room.started = "false"
  /\ ret["p1"] = Returned("createRoom", TRUE)

\* C16: when the module and difficulty filter matches no catalogue question
\* createRoom returns false and writes nothing: the room code is absent, or
\* holds its previous document, as before; the page stays in the lobby
C16_NoMatchNoWrite ==
  [][\A c \in Clients : \A cfg \in LobbyConfigs :
       (MatchCount(cfg) = 0 /\ HandleCreateRoom(c, cfg))
         => /\ ret'[c] = Returned("createRoom", FALSE)
            /\ room' = room
            /\ gameState'[c] = "lobby"]_vars

\* C16 witness: a second client's createRoom returned false and the room of
\* the first is still there
C16_CreateRefusedRoomKept ==
  /\ ret["p2"] = Returned("createRoom", FALSE)
  /\ gameState["p2"] = "lobby"
  /\ room.players = <<"p1">>
  /\ room.questions # <<>>

\* C20: once leaveRoom by the only participant has removed the room, the
\* room code shows no document until a later createRoom writes one (the
\* history variable persisted is empty exactly from a removal, or from the
\* start, until the next createRoom)
C20_RemovedRoomStaysAbsent == persisted = <<>> => ~Exists(room)

\* C32: a participant whose joinRoom returned true is in the players list
\* once its write has completed and stays there until it leaves, also when
\* another client joined the same one-participant room at the same time:
\* a client that holds the room code after a successful joinRoom, with no
\* call of its own in flight, is in players of the document it joined for
\* as long as that document has not been removed or created anew
C32_JoinedStaysInPlayers ==
  \A p \in Clients :
    ( /\ ret[p] = Returned("joinRoom", TRUE)
      /\ roomCode[p] = RoomCode
      /\ join[p] = Idle /\ leave[p] = Idle
      /\ Exists(room)
      /\ p \in everJoined )
      => p \in Range(room.players)

\* C22: the room is deleted when its last remaining participant leaves,
\* whatever the interleaving of the two leaveRoom calls' reads and writes:
\* the write half of a participant's leaveRoom that completes when every other
\* client has left and has no call in flight leaves the room absent
C22_LastLeaveDeletesRoom ==
  [][\A c \in Clients :
       ( /\ c \in everJoined
         /\ roomCode[c] = "" /\ join[c] = Idle
         /\ \A o \in Clients \ {c} : roomCode[o] = "" /\ join[o] = Idle /\ leave[o] = Idle
         /\ LeaveFinish(c) )
         => ~Exists(room')]_vars

\* the step is Home.handleCreateRoom of client c
Creates(c) == \E cfg \in LobbyConfigs : HandleCreateRoom(c, cfg)

\* C38: createRoom addressed to a room code that already holds a room with
\* participants does not discard that room: the step of a createRoom handler
\* that finds a room with players leaves its players, scores, answers,
\* pointer and question sequence as they were
C38_CreateKeepsExistingRoom ==
  [][\A c \in Clients :
       (Creates(c) /\ Exists(room) /\ room.players # <<>>)
         => /\ room'.players = room.players
            /\ room'.scores = room.scores
            /\ room'.answers = room.answers
            /\ room'.currentQuestion = room.currentQuestion
            /\ room'.questions = room.questions]_vars

\* C23: a client in the lobby moves to waiting if and only if its createRoom
\* call returned true; when createRoom or joinRoom returns false the phase
\* stays lobby and the room code stays unset: no subscription is set up and
\* the room document is untouched.  (The pages of these runs hold no
\* snapshot; what the transition effect makes of a snapshot that a page
\* holds when it enters waiting is C24.)
C23_LobbyFollowsReturn ==
  [][\A c \in Clients :
       /\ (gameState[c] = "lobby" /\ gameState'[c] = "waiting")
            => Creates(c) /\ ret'[c] = Returned("createRoom", TRUE)
       /\ (Creates(c) /\ ret'[c] = Returned("createRoom", TRUE))
            => gameState'[c] = "waiting" /\ roomCode'[c] = RoomCode /\ sub'[c] = "on"
       /\ ((Creates(c) \/ JoinFinish(c)) /\ ~ret'[c].val)
            => /\ gameState[c] = "lobby" /\ gameState'[c] = "lobby"
               /\ roomCode'[c] = ""
               /\ sub'[c] = "none"
               /\ room' = room]_vars

\* C23 witness: the first client's createRoom returned true and it waits in
\* its room; the second's createRoom and the third's joinRoom returned false
\* and both are in the lobby with no room code and no subscription
C23_OneWaitingTwoRefused ==
  /\ ret["p1"] = Returned("createRoom", TRUE)
  /\ gameState["p1"] = "waiting" /\ roomCode["p1"] = RoomCode /\ sub["p1"] = "on"
  /\ ret["p2"] = Returned("createRoom", FALSE)
  /\ ret["p3"] = Returned("joinRoom", FALSE)
  /\ \A c \in {"p2", "p3"} : gameState[c] = "lobby" /\ roomCode[c] = "" /\ sub[c] = "none"
  /\ room.cleanup = {"p1"}

(***************************************************************************)
(* Properties of setScores (SpecScores).                                   *)
(***************************************************************************)
\* the participants a scores object names
Named(m) == {p \in Clients : m[p] # Absent}

\* C19: setScores(roomCode, m) sets exactly the score entries named in m
\* and leaves every other score entry and every other field of the room as
\* it was; two calls that name different participants give the same scores
\* map in either order, each participant keeping the value written for it
C19_ScoresMergeNamedEntries ==
  [][/\ \A c \in Gamers : \A m \in ScoreMaps :
          SetScoresCall(c, m)
            => /\ \A p \in Clients :
                    room'.scores[p] = IF p \in Named(m) THEN m[p] ELSE room.scores[p]
               /\ room' = [room EXCEPT !.scores = room'.scores]
     /\ \A m1, m2 \in ScoreMaps :
          Named(m1) \cap Named(m2) = {}
            => /\ ScoresUpdate(ScoresUpdate(room, m1), m2)
                   = ScoresUpdate(ScoresUpdate(room, m2), m1)
               /\ \A p \in Named(m1) :
                    ScoresUpdate(ScoresUpdate(room, m1), m2).scores[p] = m1[p]
               /\ \A p \in Named(m2) :
                    ScoresUpdate(ScoresUpdate(room, m1), m2).scores[p] = m2[p]]_vars

\* C19 witness: in a room of two a setScores call has raised the creator's
\* score; the joiner's entry, the players and the questions are as the join
\* left them
C19_OneEntryRaised ==
  /\ room.players = <<"p1", "p2">>
  /\ room.scores = [NoScores EXCEPT !["p1"] = 1, !["p2"] = 0]
  /\ room.started = "true"
  /\ room.questions = persisted /\ persisted # <<>>

(***************************************************************************)
(* Properties of the game of two clients (Spec).                           *)
(***************************************************************************)
\* the step is the timer callback of client c calling nextQuestion
TimerAdvances(c) ==
  /\ timers[c] # <<>>
  /\ Head(timers[c]).idx < Head(timers[c]).len - 1
  /\ TimerFire(c)

\* the step is handlePlayAgain of client c calling nextQuestion(roomCode, 0)
PlayAgainAdvances(c) == roomCode[c] = RoomCode /\ HandlePlayAgain(c)

\* C6: nextQuestion(roomCode, n) is one step of the document; in the state
\* right after it the pointer equals n and the answers map has no entry, so
\* no snapshot shows the new pointer with the old answers
C6_AdvanceClearsInOneUpdate ==
  [][\A c \in Gamers :
       /\ TimerAdvances(c) =>
            room'.currentQuestion = Head(timers[c]).idx + 1 /\ room'.answers = NoScores
       /\ PlayAgainAdvances(c) =>
            room'.currentQuestion = 0 /\ room'.answers = NoScores]_vars

\* C6 witness: the document has moved to the second question with no
\* answers while a subscriber's last snapshot still shows the first question
\* with both answers
C6_AdvancedPastBothAnswers ==
  /\ room.currentQuestion = 1
  /\ room.answers = NoScores
  /\ \E c \in Gamers : /\ roomData[c].currentQuestion = 0
                        /\ \A p \in Gamers : roomData[c].answers[p] # Absent

\* C7: from the createRoom that wrote the document until its deletion, the
\* questions list of the document is the list that createRoom persisted
C7_QuestionsFixed == Exists(room) => room.questions = persisted

\* C7 witness: the list is still the persisted one after a join, answers of
\* both players, a score write and an advance of the pointer
C7_FixedAfterOperations ==
  /\ persisted # <<>>
  /\ room.questions = persisted
  /\ Len(room.players) = 2
  /\ room.currentQuestion = 1
  /\ \E p \in Gamers : room.scores[p] > 0

\* C8: each client plays the list persisted in the room: two clients that
\* show the same index show the same question, and every client's list is
\* the persisted one (same questions, same order, same length)
C8_ClientsUsePersistedList ==
  \A c \in Gamers :
    (gameState[c] = "playing" /\ Exists(roomData[c]) /\ roomData[c].questions # <<>>)
      => /\ questions[c] = roomData[c].questions
         /\ \A d \in Gamers :
              (gameState[d] = "playing" /\ Exists(roomData[d])
               /\ Idx(roomData[d]) = Idx(roomData[c]))
                => /\ Shown(questions[d], roomData[d]) = Shown(questions[c], roomData[c])
                   /\ Len(questions[d]) = Len(questions[c])

\* C14: a joinRoom and a submitAnswer whose get found no document for the
\* room code return false and write nothing: the document is as it was (if
\* it was absent it is still absent)
C14_AbsentRoomRefuses ==
  [][\A c \in Gamers :
       /\ (join[c] # Idle /\ ~join[c].exists /\ JoinFinish(c))
            => ret'[c] = Returned("joinRoom", FALSE) /\ room' = room
       /\ (submit[c] # Idle /\ ~submit[c].exists /\ SubmitFinish(c))
            => ret'[c] = Returned("submitAnswer", FALSE) /\ room' = room]_vars

\* C14 witness: a client that is playing submitted an answer to a room that
\* the other client's leaveRoom had removed; the call returned false and the
\* room is absent
C14_SubmittedToAbsentRoom ==
  /\ ~Exists(room)
  /\ \E c \in Gamers : /\ gameState[c] = "playing"
                        /\ selectedAnswer[c] # Absent
                        /\ ret[c] = Returned("submitAnswer", FALSE)

\* C17: the write of submitAnswer by participant p sets answers/p to the
\* submitted index and changes nothing else: the other participant's answer
\* and every other field are as before, so after both participants'
\* calls, in either order, the answers map holds both submitted values
C17_SubmitWritesOwnAnswer ==
  [][\A c \in Gamers :
       (submit[c] # Idle /\ submit[c].ok /\ SubmitFinish(c))
         => /\ ret'[c] = Returned("submitAnswer", TRUE)
            /\ room'.answers[c] = submit[c].k
            /\ \A p \in Clients \ {c} : room'.answers[p] = room.answers[p]
            /\ room'.players = room.players
            /\ room'.started = room.started
            /\ room'.scores = room.scores
            /\ room'.currentQuestion = room.currentQuestion
            /\ room'.questions = room.questions
            /\ room'.config = room.config
            /\ room'.cleanup = room.cleanup]_vars

\* C17 witness: both participants' submitAnswer calls for the current
\* question have completed and the answers map holds the two different
\* indices they clicked
C17_BothAnswersKept ==
  /\ Len(room.players) = 2
  /\ \A c \in Gamers : /\ submit[c] = Idle
                        /\ ret[c] = Returned("submitAnswer", TRUE)
                        /\ ansFor[c] = room.currentQuestion
                        /\ room.answers[c] = selectedAnswer[c]
  /\ room.answers["p1"] = 0
  /\ room.answers["p2"] = 1

\* C18: each client writes only its own entry of the scores map: the score
\* write that a client issues when a snapshot makes it resolve a question
\* leaves the entry of every other participant as it was
C18_ScoreWriteOwnEntryOnly ==
  [][\A c \in Gamers :
       Deliver(c) => \A p \in Clients \ {c} : room'.scores[p] = room.scores[p]]_vars

\* the step is the write half of a leaveRoom of client c whose get returned
\* the two players the document still has, c among them
LeavesRoomOfTwo(c) ==
  /\ leave[c] # Idle
  /\ leave[c].exists
  /\ Len(leave[c].players) = 2 /\ c \in Range(leave[c].players)
  /\ leave[c].players = room.players
  /\ LeaveFinish(c)

C28_NoStoreNoEffect ==
  ~database =>
    /\ room = EmptyDoc
    /\ \A c \in Clients :
         /\ gameState[c] = "lobby" /\ roomCode[c] = ""
         /\ sub[c] = "none" /\ ~leaked[c]
         /\ roomData[c] = EmptyDoc
         /\ join[c] = Idle /\ submit[c] = Idle /\ leave[c] = Idle
         /\ ~ret[c].val

\* C28 witness: without a store the three clients have called createRoom,
\* joinRoom and submitAnswer, and one of them another operation before
C28_CallsFailedWithoutStore ==
  /\ ~database
  /\ budget.calls = MaxCalls
  /\ ret["p1"] = Returned("createRoom", FALSE)
  /\ ret["p2"] = Returned("joinRoom", FALSE)
  /\ ret["p3"] = Returned("submitAnswer", FALSE)

(***************************************************************************)
(* Properties of the phases (SpecPhases).                                  *)
(***************************************************************************)
\* C24: a client in waiting moves to playing exactly when a snapshot of its
\* subscribed room shows two participants and started = true.  A client
\* that is in the lobby or waiting before a step and playing after it, other
\* than by its joinRoom, has been delivered such a snapshot in that step
\* (createRoom's handler sets waiting, and the render that follows is part
\* of the same step); and the delivery of such a snapshot to a waiting
\* client leaves it playing
C24_WaitingToPlayingOnFullStartedRoom ==
  [][\A c \in Gamers :
       /\ (gameState[c] \in {"lobby", "waiting"} /\ gameState'[c] = "playing" /\ ~JoinFinish(c))
            => /\ Deliver(c)
               /\ roomData'[c].started = "true" /\ Len(roomData'[c].players) = 2
       /\ (gameState[c] = "waiting" /\ Deliver(c)
            /\ roomData'[c].started = "true" /\ Len(roomData'[c].players) = 2)
            => gameState'[c] = "playing"]_vars

\* C36: room data kept from a room the client left earlier cannot move the
\* client to playing before a second participant has joined the room it has
\* just created: no client whose last call was a createRoom that returned
\* true is playing in a room whose document only that client has entered
C36_CreatorWaitsForSecondParticipant ==
  \A c \in Gamers :
    ~ ( /\ gameState[c] = "playing"
        /\ roomCode[c] = RoomCode
        /\ ret[c] = Returned("createRoom", TRUE)
        /\ everJoined = {c}
        /\ room.players = <<c>> )

\* C39: whenever a client enters the playing phase from lobby or waiting,
\* the room at that moment has two distinct participants and started = true;
\* a joinRoom that returns true to a caller that is already the member of a
\* one-participant room does not put that client in playing
C39_PlayingEntersFullStartedRoom ==
  [][\A c \in Gamers :
       (gameState[c] \in {"lobby", "waiting"} /\ gameState'[c] = "playing")
         => /\ Len(room'.players) = 2
            /\ Cardinality(Range(room'.players)) = 2
            /\ room'.started = "true"]_vars

(***************************************************************************)
(* Properties of the game of two clients (Spec), continued.                *)
(***************************************************************************)
\* C25: a client moves from playing to gameover only by the timer of its
\* resolution of the last index of the room's question sequence; no advance
\* is issued to an index at or beyond the length of the sequence, and the
\* pointer of the room stays within 0 .. length - 1
C25_PointerWithinSequence ==
  [][\A c \in Gamers :
       /\ (gameState[c] = "playing" /\ gameState'[c] = "gameover")
            => /\ TimerFire(c)
               /\ Head(timers[c]).idx = Len(room.questions) - 1
       /\ TimerAdvances(c) => Head(timers[c]).idx + 1 < Len(room.questions)
       /\ PlayAgainAdvances(c) => 0 < Len(room.questions)
       /\ (Exists(room') /\ room'.currentQuestion # Absent)
            => room'.currentQuestion \in 0..(Len(room'.questions) - 1)]_vars

\* C26: when the first snapshot after its play again reaches a client, the
\* client is in the playing phase, the snapshot shows pointer 0 and an empty
\* answers map, and the client's two score counters are 0
C26_PlayAgainStartsFromZero ==
  [][\A c \in Gamers :
       (playedAgain[c] /\ Deliver(c))
         => /\ gameState'[c] = "playing"
            /\ roomData'[c].currentQuestion = 0
            /\ roomData'[c].answers = NoScores
            /\ playerScore'[c] = 0
            /\ opponentScore'[c] = 0]_vars

\* the snapshot rd names an opponent of c and holds an answer of each of the two
AnswersOfBoth(c, rd) ==
  \E o \in Clients \ {c} :
    /\ OpponentId(rd, c) = o
    /\ rd.answers[c] \in Choices
    /\ rd.answers[o] \in Choices

\* C30: a client resolves a question only from a snapshot in which its own
\* participant and the opponent both have an entry in the answers map.  A
\* step that schedules an advance or a gameover on a client, or that makes
\* its answer effect throw, leaves the client holding such a snapshot; and
\* a step that hands the client a new snapshot with zero or one answer, or
\* without an opponent, writes nothing to the room (no score write),
\* schedules nothing, ends no game, and leaves the two score counters as
\* they were or as the score sync effect copies them from the snapshot's
\* scores map.
C30_ResolvesOnBothAnswersOnly ==
  [][\A c \in Gamers :
       /\ (\/ Len(timers'[c]) > Len(timers[c])
           \/ (gameState'[c] = "crashed" /\ gameState[c] # "crashed"))
            => AnswersOfBoth(c, roomData'[c])
       /\ (roomData'[c] # roomData[c] /\ ~AnswersOfBoth(c, roomData'[c]))
            => /\ room' = room
               /\ resolved'.by \subseteq resolved.by
               /\ timers'[c] = timers[c]
               /\ gameState'[c] # "gameover" \/ gameState[c] = "gameover"
               /\ processed'[c] \in {processed[c], -1}
               /\ IF roomData'[c].scores # NoScores
                  THEN /\ playerScore'[c] = ScoreOr0(roomData'[c], c)
                       /\ opponentScore'[c] =
                            ScoreOr0(roomData'[c], OpponentId(roomData'[c], c))
                  ELSE /\ playerScore'[c] = playerScore[c]
                       /\ opponentScore'[c] = opponentScore[c]]_vars

\* C30 witness: a playing client holds a snapshot with its own answer and
\* without the opponent's; nothing was resolved, scheduled or scored
C30_OneAnswerSeenNothingResolved ==
  \E c \in Gamers :
    /\ gameState[c] = "playing"
    /\ Exists(roomData[c])
    /\ roomData[c].answers[c] # Absent
    /\ OpponentId(roomData[c], c) # ""
    /\ roomData[c].answers[OpponentId(roomData[c], c)] = Absent
    /\ roomData[c] = View(room)
    /\ timers[c] = <<>>
    /\ resolved = NoRound
    /\ \A p \in Gamers : room.scores[p] = 0
    /\ playerScore[c] = 0 /\ opponentScore[c] = 0

\* C33: an answer recorded for the current index is not removed from the
\* answers map while the pointer stays at that index and the submitter stays
\* in the room; in particular the later of the two advances to i+1 issued by
\* the two clients after resolving i erases no answer already given for i+1.
\* Every step that is not a call of a lobby, leave or play again handler
\* keeps an answer of p written for the pointer the room has, unless the
\* pointer changes value or p is no longer in players.
C33_AnswerKeptWhilePointerStays ==
  [][\A p \in Gamers :
       ( /\ budget'.calls = budget.calls
         /\ Exists(room) /\ Exists(room')
         /\ room.answers[p] # Absent
         /\ ansFor[p] = room.currentQuestion
         /\ room'.currentQuestion = room.currentQuestion
         /\ p \in Range(room'.players) )
         => room'.answers[p] # Absent]_vars

\* C34: once the room document has been deleted it stays absent until a
\* createRoom for that code: a step that finds no document at the path
\* leaves none there unless it is a createRoom that writes its questions;
\* no write of submitAnswer, advance, score write or cleanup marker brings a
\* partial document into being.  The steps looked at are those taken while
\* no joinRoom call is between its get and its write.
C34_AbsentUntilCreateRoom ==
  [][(/\ ~Exists(room) /\ Exists(room')
      /\ \A c \in Gamers : join[c] = Idle)
       => \E c \in Gamers :
            /\ gameState[c] = "lobby"
            /\ budget'.calls = budget.calls + 1
            /\ ret'[c] = Returned("createRoom", TRUE)
            /\ room'.questions # <<>>
            /\ room'.players = <<c>>]_vars

\* C35: a client that is back in the lobby stays in the lobby until it
\* creates or joins a room and issues no further write to the room it left:
\* a step that takes a client out of the lobby is its createRoom handler or
\* the completion of its joinRoom, and a resolution timer that fires on a
\* client in the lobby leaves the room document as it is
C35_LobbyUntilCreateOrJoin ==
  [][\A c \in Gamers :
       (gameState[c] = "lobby" /\ roomCode[c] = "")
         => /\ \/ gameState'[c] = "lobby"
               \/ budget'.calls = budget.calls + 1
               \/ join[c] # Idle /\ join'[c] = Idle
            /\ Len(timers'[c]) < Len(timers[c]) => room' = room]_vars

\* C37: play again does not resolve the last question a second time: from a
\* client's play again until the next snapshot is delivered to it, that
\* client schedules no advance or gameover, and its play again step leaves
\* its two score counters at 0 and the scores of the room as they were
C37_PlayAgainResolvesNothing ==
  [][\A c \in Gamers :
       playedAgain'[c]
         => /\ Len(timers'[c]) <= Len(timers[c])
            /\ ~playedAgain[c]
                 => /\ playerScore'[c] = 0 /\ opponentScore'[c] = 0
                    /\ room'.scores = room.scores]_vars

\* C2: once both players have resolved index i, each player's entry in the
\* scores map is its value before the resolution plus one if the option at
\* the player's submitted index is an accepted answer of question i, plus
\* zero otherwise
C2_ScoresAfterBothResolved ==
  ( /\ Exists(room)
    /\ Len(room.players) = 2
    /\ resolved.by = Range(room.players)
    /\ resolved.idx = room.currentQuestion
    /\ resolved.idx >= 0 /\ resolved.idx < Len(persisted) )
  => \A p \in Range(room.players) :
       resolved.base[p] # Absent =>
         room.scores[p] = resolved.base[p] + Gain(persisted[resolved.idx + 1], resolved.ans[p])

\* C3: on one client the resolution of an index runs at most once while the
\* pointer keeps its value
C3_ResolvedOncePerIndex == \A c \in Gamers : runs[c] <= 1

\* C5: every entry of the answers map was submitted while the pointer had
\* the value it has now
C5_AnswersBelongToPointer ==
  \A p \in Gamers :
    (Exists(room) /\ room.currentQuestion # Absent /\ room.answers[p] # Absent)
      => ansFor[p] = room.currentQuestion

\* C9: within one playthrough no entry of the scores map decreases from one
\* state to the next
C9_ScoresNeverDecrease ==
  [][\A p \in Gamers :
       ( /\ room.started = "true" /\ room'.started = "true"
         /\ persisted' = persisted
         /\ ~ \E c \in Gamers : HandlePlayAgain(c)
         /\ room.scores[p] # Absent /\ room'.scores[p] # Absent )
       => room'.scores[p] >= room.scores[p]]_vars

\* the step is the cancel or leave button of client c
Leaves(c) == HandleCancel(c) \/ HandleNewRoom(c)

\* C27 (under FairSpec): a leave or cancel in the waiting, playing or gameover
\* phase puts the client in the lobby with its room code cleared and issues
\* a leaveRoom for the room it was in; the write of that leaveRoom takes the
\* participant out of players or deletes the room, and it does come
C27_LeaveReturnsToLobbyAndDeparts ==
  /\ [][\A c \in Gamers :
          /\ Leaves(c)
               => /\ gameState[c] \in {"waiting", "playing", "gameover"}
                  /\ gameState'[c] = "lobby"
                  /\ roomCode'[c] = ""
                  /\ roomCode[c] = RoomCode => leave'[c] # Idle
          /\ (leave[c] # Idle /\ leave[c].exists /\ LeaveFinish(c))
               => c \notin Range(room'.players) \/ ~Exists(room')]_vars
  /\ \A c \in Gamers :
       (leave[c] # Idle) ~> (leave[c] = Idle /\ (c \notin Range(room.players) \/ ~Exists(room)))

\* C27 witness: the joiner has played the game, left it and its leaveRoom has
\* completed: it is in the lobby without a room code and no longer among the
\* players of the room, in which the creator has reached game over
C27_JoinerLeftFinishedGame ==
  /\ gameState["p2"] = "lobby" /\ roomCode["p2"] = "" /\ leave["p2"] = Idle
  /\ ret["p2"] = Returned("submitAnswer", TRUE)
  /\ room.players = <<"p1">>
  /\ gameState["p1"] = "gameover"

\* C29 (under FairSpec): while a client is subscribed, the document as it is
\* eventually reaches it as a snapshot; and once its subscription effect has
\* been torn down (room code changed, or back in the lobby) no snapshot
\* updates its room data any more, also when the teardown came while the
\* setup write of the subscription was in flight
C29_SnapshotsWhileSubscribedOnly ==
  /\ \A c \in Gamers :
       (sub[c] = "on" /\ roomData[c] # View(room))
         ~> (roomData[c] = View(room) \/ sub[c] = "none")
  /\ [][\A c \in Gamers :
          (sub[c] = "none" /\ sub'[c] = "none") => roomData'[c] = roomData[c]]_vars

\* both players of the room have an answer recorded at pointer i
BothAnsweredAt(i) ==
  /\ Exists(room)
  /\ room.currentQuestion = i
  /\ Len(room.players) = 2
  /\ \A p \in Range(room.players) : room.answers[p] # Absent

\* both clients are in the room and in the playing phase
BothPlaying == \A c \in Gamers : gameState[c] = "playing" /\ roomCode[c] = RoomCode

\* a client has left the room
SomeoneLeft == \E c \in Gamers : roomCode[c] # RoomCode

\* C40 (under FairSpec): when a client is in gameover and the other
\* participant has triggered play again, the client in gameover eventually
\* returns to the playing phase as well, unless it leaves the room
C40_OtherClientPlaysAgain ==
  \A c \in Gamers : \A o \in Gamers \ {c} :
    (gameState[c] = "gameover" /\ roomCode[c] = RoomCode /\ playedAgain[o])
      ~> (gameState[c] = "playing" \/ roomCode[c] # RoomCode)

\* C4 (under FairSpec): whenever both players have an answer recorded at
\* the current index i and both clients are playing, then, unless a client
\* leaves, eventually the pointer is i + 1 when i is not the last index, and
\* every client reaches gameover when it is
C4_BothAnsweredLeadsOn ==
  \A i \in 0..(Len(satQuestions) - 1) : \A c \in Gamers :
    (BothAnsweredAt(i) /\ BothPlaying)
      ~> \/ SomeoneLeft
         \/ i < Len(persisted) - 1 /\ room.currentQuestion = i + 1
         \/ i >= Len(persisted) - 1 /\ gameState[c] = "gameover"

====
